---- MODULE Spec2Model ----
(***************************************************************************)
(* Model of src/chitti_agent.py: ChittiAgent, a single-pass pipeline       *)
(*   run -> analyze_query -> route_to_medium -> one branch executor        *)
(*       -> format_response -> END                                         *)
(* Python strings are sequences of one-character strings, so that strip,   *)
(* split, startswith, replace, lower and the f-string templates are        *)
(* computed character by character as the code computes them.              *)
(***************************************************************************)
EXTENDS Naturals, Sequences, FiniteSets

(***************************************************************************)
(* Bounds of the model.                                                    *)
(***************************************************************************)
\* Number of run() calls made on the one agent.
MaxRuns == 2
\* Number of lines in a reply of the completion service.
MaxLines == 2

(***************************************************************************)
(* Python str operations.                                                  *)
(***************************************************************************)
\* Characters str.strip() removes.
Whitespace == {" ", "\t", "\n", "\r", "\f"}

UpperLetters ==
    <<"A","B","C","D","E","F","G","H","I","J","K","L","M","N","O","P","Q","R","S","T","U","V","W","X","Y","Z">>

LowerLetters ==
    <<"a","b","c","d","e","f","g","h","i","j","k","l","m","n","o","p","q","r","s","t","u","v","w","x","y","z">>

LowerChar(c) ==
    IF \E i \in 1..Len(UpperLetters) : UpperLetters[i] = c
    THEN LowerLetters[CHOOSE i \in 1..Len(UpperLetters) : UpperLetters[i] = c]
    ELSE c

\* str.lower()
Lower(s) == [i \in 1..Len(s) |-> LowerChar(s[i])]

RECURSIVE LStrip(_)
LStrip(s) ==
    IF s # <<>> /\ Head(s) \in Whitespace THEN LStrip(Tail(s)) ELSE s

RECURSIVE RStrip(_)
RStrip(s) ==
    IF s # <<>> /\ s[Len(s)] \in Whitespace
    THEN RStrip(SubSeq(s, 1, Len(s) - 1))
    ELSE s

\* str.strip()
Strip(s) == RStrip(LStrip(s))

\* Variant: leading whitespace of the line is skipped before the comparison.
StartsWithIndented(s, p) ==
    Len(LStrip(s)) >= Len(p) /\ SubSeq(LStrip(s), 1, Len(p)) = p

\* str.startswith(p)
StartsWith(s, p) == Len(s) >= Len(p) /\ SubSeq(s, 1, Len(p)) = p

\* First index >= from at which sub occurs in s, 0 when there is none.
Find(s, sub, from) ==
    LET hits == {i \in from..(Len(s) - Len(sub) + 1) : SubSeq(s, i, i + Len(sub) - 1) = sub}
    IN  IF hits = {} THEN 0 ELSE CHOOSE i \in hits : \A j \in hits : i <= j

\* sub in s
Contains(s, sub) == Find(s, sub, 1) # 0

\* str.replace(old, ""): every non-overlapping occurrence of old, left to
\* right, is removed (old is never empty here).
RECURSIVE Remove(_, _)
Remove(s, old) ==
    LET i == Find(s, old, 1)
    IN  IF i = 0 THEN s
        ELSE SubSeq(s, 1, i - 1) \o Remove(SubSeq(s, i + Len(old), Len(s)), old)

\* str.count(sub): non-overlapping occurrences, left to right; the empty
\* string occurs len(s) + 1 times.
RECURSIVE Count(_, _)
Count(s, sub) ==
    IF sub = <<>> THEN Len(s) + 1
    ELSE LET i == Find(s, sub, 1)
         IN  IF i = 0 THEN 0
             ELSE 1 + Count(SubSeq(s, i + Len(sub), Len(s)), sub)

\* str.split(sep) for a one-character sep: "" splits to [""].
RECURSIVE Split(_, _)
Split(s, sep) ==
    LET i == Find(s, <<sep>>, 1)
    IN  IF i = 0 THEN <<s>>
        ELSE <<SubSeq(s, 1, i - 1)>> \o Split(SubSeq(s, i + 1, Len(s)), sep)

\* sep.join(parts)
RECURSIVE Join(_, _)
Join(parts, sep) ==
    IF parts = <<>> THEN <<>>
    ELSE IF Len(parts) = 1 THEN parts[1]
    ELSE parts[1] \o <<sep>> \o Join(Tail(parts), sep)

(***************************************************************************)
(* String literals of the source.                                          *)
(***************************************************************************)
\* "REASONING:"
REASONING_MARKER ==
    <<"R","E","A","S","O","N","I","N","G",":">>

\* "MEDIUM:"
MEDIUM_MARKER ==
    <<"M","E","D","I","U","M",":">>

TEXT == <<"t","e","x","t">>
IMAGE == <<"i","m","a","g","e">>
VIDEO == <<"v","i","d","e","o">>

\* AgentState.selected_medium: Literal["text", "image", "video"]
Canonical == {TEXT, IMAGE, VIDEO}

\* "Error retrieving Wikipedia information: "
WIKI_ERROR_PREFIX ==
    <<"E","r","r","o","r"," ","r","e","t","r","i","e","v","i","n","g"," ","W","i","k","i","p","e","d","i","a"," ","i","n","f","o","r","m","a","t","i","o","n",":"," ">>

\* "Error generating image: "
IMAGE_ERROR_PREFIX ==
    <<"E","r","r","o","r"," ","g","e","n","e","r","a","t","i","n","g"," ","i","m","a","g","e",":"," ">>

\* "Error searching YouTube: "
YOUTUBE_ERROR_PREFIX ==
    <<"E","r","r","o","r"," ","s","e","a","r","c","h","i","n","g"," ","Y","o","u","T","u","b","e",":"," ">>

\* "A clear, educational illustration of "
IMAGE_PROMPT_HEAD ==
    <<"A"," ","c","l","e","a","r",","," ","e","d","u","c","a","t","i","o","n","a","l"," ","i","l","l","u","s","t","r","a","t","i","o","n"," ","o","f"," ">>

\* ", high quality, detailed"
IMAGE_PROMPT_TAIL ==
    <<","," ","h","i","g","h"," ","q","u","a","l","i","t","y",","," ","d","e","t","a","i","l","e","d">>

\* " tutorial explanation"
YOUTUBE_SUFFIX ==
    <<" ","t","u","t","o","r","i","a","l"," ","e","x","p","l","a","n","a","t","i","o","n">>

\* "**Reasoning:** "
REASONING_HEAD ==
    <<"*","*","R","e","a","s","o","n","i","n","g",":","*","*"," ">>

\* "\n\n**Wikipedia Summary:**\n"
TEXT_BODY ==
    <<"\n","\n","*","*","W","i","k","i","p","e","d","i","a"," ","S","u","m","m","a","r","y",":","*","*","\n">>

\* "\n\n**Generated Image:**\n![Generated Image]("
IMAGE_BODY ==
    <<"\n","\n","*","*","G","e","n","e","r","a","t","e","d"," ","I","m","a","g","e",":","*","*","\n","!","[","G","e","n","e","r","a","t","e","d"," ","I","m","a","g","e","]","(">>

\* ")\n\nImage URL: "
IMAGE_URL_LINE ==
    <<")","\n","\n","I","m","a","g","e"," ","U","R","L",":"," ">>

\* "\n\n**YouTube Videos:**\n"
VIDEO_BODY ==
    <<"\n","\n","*","*","Y","o","u","T","u","b","e"," ","V","i","d","e","o","s",":","*","*","\n">>

(***************************************************************************)
(* Inputs: the queries given to run, and what the external services        *)
(* (completion, Wikipedia, image generation, YouTube search) answer.       *)
(***************************************************************************)
\* "cat", "knot"
Queries == {<<"c","a","t">>, <<"k","n","o","t">>}

\* Texts after "REASONING:" on a line: " ok", " u REASONING: b", " see http://x "
ReasoningValues ==
    { <<" ","o","k">>,
      <<" ","u"," ","R","E","A","S","O","N","I","N","G",":"," ","b">>,
      <<" ","s","e","e"," ","h","t","t","p",":","/","/","x"," ">> }

\* Texts after "MEDIUM:" on a line: " image", "  VIDEO ", "text", " audio", ""
MediumValues ==
    { <<" ","i","m","a","g","e">>,
      <<" "," ","V","I","D","E","O"," ">>,
      <<"t","e","x","t">>,
      <<" ","a","u","d","i","o">>,
      <<>> }

\* Lines without a marker at their start: " MEDIUM: video", "Medium: image", "hello"
OtherLines ==
    { <<" ","M","E","D","I","U","M",":"," ","v","i","d","e","o">>,
      <<"M","e","d","i","u","m",":"," ","i","m","a","g","e">>,
      <<"h","e","l","l","o">> }

ReasoningLine(r) == REASONING_MARKER \o r

MediumLine(m) == MEDIUM_MARKER \o m

Lines ==
    {ReasoningLine(r) : r \in ReasoningValues}
        \cup {MediumLine(m) : m \in MediumValues}
        \cup OtherLines

\* Reply texts of the completion service: up to MaxLines lines.
Replies ==
    UNION { {Join(ls, "\n") : ls \in [1..n -> Lines]} : n \in 0..MaxLines }

\* What self.llm.invoke does: raises (ok is FALSE), or returns a response with
\* this content.
LLMOutcomes ==
    {[ok |-> FALSE, content |-> <<>>]}
        \cup {[ok |-> TRUE, content |-> r] : r \in Replies}

Tools == {"wikipedia_tool", "images_generate", "youtube_tool"}

\* The text a tool returns: "Cats purr.", "http://x", "['v1', 'v2']"
ToolResult(tool) ==
    CASE tool = "wikipedia_tool" ->
            <<"C","a","t","s"," ","p","u","r","r",".">>
      [] tool = "images_generate" ->
            <<"h","t","t","p",":","/","/","x">>
      [] tool = "youtube_tool" ->
            <<"[","'","v","1","'",","," ","'","v","2","'","]">>

\* str(e) of the exception a failing tool raises: "timeout"
ToolFailure == <<"t","i","m","e","o","u","t">>

\* What a tool call does: returns text, or raises an Exception with text str(e).
ToolOutcomes(tool) ==
    { [raises |-> FALSE, text |-> ToolResult(tool)],
      [raises |-> TRUE, text |-> ToolFailure] }

(***************************************************************************)
(* State.                                                                  *)
(***************************************************************************)
VARIABLES
    llm_mock,   \* the completion service's (deterministic) answer
    tool_memo,  \* answers the tools have given: a tool answers a request it has seen as before
    state,      \* the AgentState of the current (or last) run
    pc,         \* "idle", the graph node about to execute, "END", or "done"
    calls,      \* invocation counts of the current run
    routed,     \* values route_to_medium returned in the current run
    result,     \* outcome of the current run
    history     \* outcomes of the finished runs, in order

vars == <<llm_mock, tool_memo, state, pc, calls, routed, result, history>>

Nodes ==
    {"analyze_query", "get_wikipedia", "generate_image", "search_youtube", "format_response"}

BranchNodes == {"get_wikipedia", "generate_image", "search_youtube"}

Counted == Nodes \cup Tools \cup {"llm", "route_to_medium"}

NoCalls == [c \in Counted |-> 0]

NoResult == [kind |-> "none", content |-> <<>>, error |-> "none"]

Returned(content) == [kind |-> "returned", content |-> content, error |-> "none"]

Raised(error) == [kind |-> "raised", content |-> <<>>, error |-> error]

(***************************************************************************)
(* ChittiAgent.analyze_query                                               *)
(***************************************************************************)
\* Variant: another default medium.
DefaultMediumImage == IMAGE

\* medium = "text"  # default
DefaultMedium == TEXT

\* line.replace("REASONING:", "").strip()
ReasoningOf(line) == Strip(Remove(line, REASONING_MARKER))

\* Variant: a value outside the three media is replaced by the default.
MediumOfValidated(line) ==
    LET value == Lower(Strip(Remove(line, MEDIUM_MARKER)))
    IN  IF value \in {TEXT, IMAGE, VIDEO} THEN value ELSE TEXT

\* line.replace("MEDIUM:", "").strip().lower()
MediumOf(line) == Lower(Strip(Remove(line, MEDIUM_MARKER)))

\* for line in lines: if line.startswith("REASONING:") ... elif line.startswith("MEDIUM:") ...
RECURSIVE ParseLines(_, _, _)
ParseLines(lines, reasoning, medium) ==
    IF lines = <<>> THEN [reasoning |-> reasoning, medium |-> medium]
    ELSE IF StartsWith(Head(lines), REASONING_MARKER)
         THEN ParseLines(Tail(lines), ReasoningOf(Head(lines)), medium)
    ELSE IF StartsWith(Head(lines), MEDIUM_MARKER)
         THEN ParseLines(Tail(lines), reasoning, MediumOf(Head(lines)))
    ELSE ParseLines(Tail(lines), reasoning, medium)

\* Variant: the loop leaves at the first "MEDIUM:" line, so later ones are not read.
RECURSIVE UpToFirstMedium(_)
UpToFirstMedium(lines) ==
    IF lines = <<>> THEN <<>>
    ELSE IF StartsWith(Head(lines), MEDIUM_MARKER) THEN <<Head(lines)>>
    ELSE <<Head(lines)>> \o UpToFirstMedium(Tail(lines))

ParseReplyFirstMedium(content) ==
    ParseLines(UpToFirstMedium(Split(Strip(content), "\n")), <<>>, DefaultMedium)

\* lines = content.strip().split('\n'); reasoning = ""; medium = "text"; the loop
ParseReply(content) ==
    ParseLines(Split(Strip(content), "\n"), <<>>, DefaultMedium)

\* Variant: the completion call is wrapped like the tool calls, its failure swallowed.
analyze_swallows(outcome) == FALSE

\* response = self.llm.invoke(analysis_prompt), outside any try: analyze_query
\* raises whenever the call does.
analyze_raises(outcome) == ~outcome.ok

\* The state analyze_query returns when the completion service answers content.
analyze_query(st, content) ==
    LET parsed == ParseReply(content)
    IN  [st EXCEPT !.reasoning = parsed.reasoning,
                   !.selected_medium = parsed.medium]

(***************************************************************************)
(* ChittiAgent.route_to_medium and the conditional edges of _build_graph   *)
(***************************************************************************)
route_to_medium(st) == st.selected_medium

\* Variant: the graph entered at the text branch.
EntryPointWikipedia == "get_wikipedia"

\* workflow.set_entry_point("analyze_query")
EntryPoint == "analyze_query"

\* The path map: {"text": "get_wikipedia", "image": "generate_image", "video": "search_youtube"}
PathMapKeys == {TEXT, IMAGE, VIDEO}

\* Variant: the image and video entries of the path map exchanged.
PathMapSwapped(key) ==
    CASE key = TEXT -> "get_wikipedia"
      [] key = IMAGE -> "search_youtube"
      [] key = VIDEO -> "generate_image"

PathMap(key) ==
    CASE key = TEXT -> "get_wikipedia"
      [] key = IMAGE -> "generate_image"
      [] key = VIDEO -> "search_youtube"

\* Variant: the image branch is wired to the video branch instead of the formatter.
EdgeFromFanOut(node) ==
    IF node = "generate_image" THEN "search_youtube" ELSE "format_response"

\* Variant: a branch is wired to itself until it has run once, so it runs twice.
EdgeFromRetry(node) ==
    IF calls[node] = 0 THEN node ELSE "format_response"

\* Variant: the text branch is wired to the image branch instead of the formatter.
EdgeFromChained(node) ==
    IF node = "get_wikipedia" THEN "generate_image" ELSE "format_response"

\* workflow.add_edge(<branch>, "format_response"), for each of the three branches
EdgeFrom(node) == "format_response"

(***************************************************************************)
(* The branch executors.                                                   *)
(***************************************************************************)
\* self.wikipedia_tool.run(state["user_query"])
WikipediaRequest(st) == st.user_query

\* f"A clear, educational illustration of {state['user_query']}, high quality, detailed"
ImagePrompt(st) == IMAGE_PROMPT_HEAD \o st.user_query \o IMAGE_PROMPT_TAIL

\* f"{state['user_query']} tutorial explanation"
YoutubeRequest(st) == st.user_query \o YOUTUBE_SUFFIX

\* Variant: the except clause also empties the reasoning.
get_wikipedia_clears(st, outcome) ==
    IF outcome.raises
    THEN [st EXCEPT !.output = WIKI_ERROR_PREFIX \o outcome.text, !.reasoning = <<>>]
    ELSE [st EXCEPT !.output = outcome.text]

\* try: state["output"] = <result> except Exception as e: state["output"] = f"<prefix>{str(e)}"
get_wikipedia(st, outcome) ==
    [st EXCEPT !.output = IF outcome.raises THEN WIKI_ERROR_PREFIX \o outcome.text
                          ELSE outcome.text]

\* Variant: the except clause stores str(e) without the prefix.
generate_image_bare(st, outcome) == [st EXCEPT !.output = outcome.text]

generate_image(st, outcome) ==
    [st EXCEPT !.output = IF outcome.raises THEN IMAGE_ERROR_PREFIX \o outcome.text
                          ELSE outcome.text]

\* Variant: the except clause marks the failure in selected_medium: "error".
search_youtube_flags(st, outcome) ==
    IF outcome.raises
    THEN [st EXCEPT !.output = YOUTUBE_ERROR_PREFIX \o outcome.text,
                    !.selected_medium = <<"e","r","r","o","r">>]
    ELSE [st EXCEPT !.output = outcome.text]

search_youtube(st, outcome) ==
    [st EXCEPT !.output = IF outcome.raises THEN YOUTUBE_ERROR_PREFIX \o outcome.text
                          ELSE outcome.text]

(***************************************************************************)
(* ChittiAgent.format_response                                             *)
(***************************************************************************)
\* Variant: the video template carries the heading of the text template.
FormattedResponseCopied(medium, reasoning, output) ==
    CASE medium = TEXT ->
            REASONING_HEAD \o reasoning \o TEXT_BODY \o output
      [] medium = IMAGE ->
            REASONING_HEAD \o reasoning \o IMAGE_BODY \o output \o IMAGE_URL_LINE \o output
      [] medium = VIDEO ->
            REASONING_HEAD \o reasoning \o TEXT_BODY \o output

\* Variant: the image template without its "Image URL:" line.
FormattedResponseNoUrlLine(medium, reasoning, output) ==
    CASE medium = TEXT ->
            REASONING_HEAD \o reasoning \o TEXT_BODY \o output
      [] medium = IMAGE ->
            REASONING_HEAD \o reasoning \o IMAGE_BODY \o output \o <<")">>
      [] medium = VIDEO ->
            REASONING_HEAD \o reasoning \o VIDEO_BODY \o output

\* The three templates; formatted_response is bound only for these media.
FormattedResponse(medium, reasoning, output) ==
    CASE medium = TEXT ->
            REASONING_HEAD \o reasoning \o TEXT_BODY \o output
      [] medium = IMAGE ->
            REASONING_HEAD \o reasoning \o IMAGE_BODY \o output \o IMAGE_URL_LINE \o output
      [] medium = VIDEO ->
            REASONING_HEAD \o reasoning \o VIDEO_BODY \o output

\* state["messages"] = [{"role": "assistant", "content": formatted_response}]
format_response(st) ==
    [st EXCEPT !.messages =
        << [role |-> "assistant",
            content |-> FormattedResponse(st.selected_medium, st.reasoning, st.output)] >>]

(***************************************************************************)
(* ChittiAgent.run                                                         *)
(***************************************************************************)
\* Before the first run there is no AgentState: every field is empty.
NoState ==
    [user_query |-> <<>>,
     reasoning |-> <<>>,
     selected_medium |-> <<>>,
     output |-> <<>>,
     messages |-> <<>>]

\* Variant: run reuses the state record of the previous run, replacing only the query.
InitialStateReused(user_query) == [state EXCEPT !.user_query = user_query]

InitialState(user_query) ==
    [user_query |-> user_query,
     reasoning |-> <<>>,
     selected_medium |-> TEXT,
     output |-> <<>>,
     messages |-> <<>>]

\* The run ends: its outcome is what the caller of run sees.
Finish(outcome) ==
    /\ result' = outcome
    /\ history' = Append(history, [query |-> state.user_query, result |-> outcome])
    /\ pc' = "done"

\* run(user_query) up to the start of graph.invoke: the entry point is analyze_query.
StartRun(q) ==
    /\ state' = InitialState(q)
    /\ pc' = EntryPoint
    /\ calls' = NoCalls
    /\ routed' = <<>>
    /\ result' = NoResult
    /\ UNCHANGED <<tool_memo, history>>

\* A caller invokes run with some query.
Run(q) ==
    /\ pc \in {"idle", "done"}
    /\ Len(history) < MaxRuns
    /\ StartRun(q)
    /\ UNCHANGED llm_mock

\* Node analyze_query, then its conditional edge.  An exception of llm.invoke is
\* not caught; a routing key the path map lacks raises KeyError in the graph.
AnalyzeQuery ==
    /\ pc = "analyze_query"
    /\ IF analyze_raises(llm_mock)
       THEN /\ calls' = [calls EXCEPT !["analyze_query"] = @ + 1, !["llm"] = @ + 1]
            /\ Finish(Raised("ServiceError"))
            /\ UNCHANGED <<state, routed>>
       ELSE LET st == analyze_query(state, llm_mock.content)
                key == route_to_medium(st)
            IN  /\ calls' = [calls EXCEPT !["analyze_query"] = @ + 1,
                                          !["llm"] = @ + 1,
                                          !["route_to_medium"] = @ + 1]
                /\ state' = st
                /\ routed' = Append(routed, key)
                /\ IF key \in PathMapKeys
                   THEN /\ pc' = PathMap(key)
                        /\ UNCHANGED <<result, history>>
                   ELSE Finish(Raised("KeyError"))
    /\ UNCHANGED <<llm_mock, tool_memo>>

\* The outcomes a tool call can have: as before for a request it has seen.
Answers(tool, request) ==
    LET seen == {m \in tool_memo : m.tool = tool /\ m.request = request}
    IN  IF seen = {} THEN ToolOutcomes(tool) ELSE {m.outcome : m \in seen}

Remember(tool, request, outcome) ==
    tool_memo' = tool_memo \cup {[tool |-> tool, request |-> request, outcome |-> outcome]}

\* Node get_wikipedia, then its edge to format_response.
GetWikipedia ==
    /\ pc = "get_wikipedia"
    /\ \E outcome \in Answers("wikipedia_tool", WikipediaRequest(state)) :
         /\ Remember("wikipedia_tool", WikipediaRequest(state), outcome)
         /\ state' = get_wikipedia(state, outcome)
    /\ calls' = [calls EXCEPT !["get_wikipedia"] = @ + 1, !["wikipedia_tool"] = @ + 1]
    /\ pc' = EdgeFrom("get_wikipedia")
    /\ UNCHANGED <<llm_mock, routed, result, history>>

\* Node generate_image, then its edge to format_response.
GenerateImage ==
    /\ pc = "generate_image"
    /\ \E outcome \in Answers("images_generate", ImagePrompt(state)) :
         /\ Remember("images_generate", ImagePrompt(state), outcome)
         /\ state' = generate_image(state, outcome)
    /\ calls' = [calls EXCEPT !["generate_image"] = @ + 1, !["images_generate"] = @ + 1]
    /\ pc' = EdgeFrom("generate_image")
    /\ UNCHANGED <<llm_mock, routed, result, history>>

\* Node search_youtube, then its edge to format_response.
SearchYoutube ==
    /\ pc = "search_youtube"
    /\ \E outcome \in Answers("youtube_tool", YoutubeRequest(state)) :
         /\ Remember("youtube_tool", YoutubeRequest(state), outcome)
         /\ state' = search_youtube(state, outcome)
    /\ calls' = [calls EXCEPT !["search_youtube"] = @ + 1, !["youtube_tool"] = @ + 1]
    /\ pc' = EdgeFrom("search_youtube")
    /\ UNCHANGED <<llm_mock, routed, result, history>>

\* Node format_response, then its edge to END.  With a medium none of the three
\* branches of the if covers, formatted_response is unbound: UnboundLocalError.
FormatResponse ==
    /\ pc = "format_response"
    /\ calls' = [calls EXCEPT !["format_response"] = @ + 1]
    /\ IF state.selected_medium \in Canonical
       THEN /\ state' = format_response(state)
            /\ pc' = "END"
            /\ UNCHANGED <<result, history>>
       ELSE /\ Finish(Raised("UnboundLocalError"))
            /\ UNCHANGED state
    /\ UNCHANGED <<llm_mock, tool_memo, routed>>

\* return final_state["messages"][0]["content"]
Return ==
    /\ pc = "END"
    /\ IF state.messages = <<>>
       THEN Finish(Raised("IndexError"))
       ELSE Finish(Returned(state.messages[1].content))
    /\ UNCHANGED <<llm_mock, tool_memo, state, calls, routed>>

Init ==
    /\ llm_mock \in LLMOutcomes
    /\ tool_memo = {}
    /\ state = NoState
    /\ pc = "idle"
    /\ calls = NoCalls
    /\ routed = <<>>
    /\ result = NoResult
    /\ history = <<>>

Next ==
    \/ \E q \in Queries : Run(q)
    \/ AnalyzeQuery
    \/ GetWikipedia
    \/ GenerateImage
    \/ SearchYoutube
    \/ FormatResponse
    \/ Return

Spec == Init /\ [][Next]_vars

(***************************************************************************)
(* main: the reference driver.                                             *)
(***************************************************************************)
\* test_queries, the list main iterates over.
test_queries ==
    <<
       \* "The process of photosynthesis"
       <<"T","h","e"," ","p","r","o","c","e","s","s"," ","o","f"," ","p","h","o","t","o","s","y","n","t","h","e","s","i","s">>,
       \* "What does a blue whale look like?"
       <<"W","h","a","t"," ","d","o","e","s"," ","a"," ","b","l","u","e"," ","w","h","a","l","e"," ","l","o","o","k"," ","l","i","k","e","?">>,
       \* "How to tie a Windsor knot"
       <<"H","o","w"," ","t","o"," ","t","i","e"," ","a"," ","W","i","n","d","s","o","r"," ","k","n","o","t">>,
       \* "Explain quantum physics"
       <<"E","x","p","l","a","i","n"," ","q","u","a","n","t","u","m"," ","p","h","y","s","i","c","s">>,
       \* "Show me the Eiffel Tower"
       <<"S","h","o","w"," ","m","e"," ","t","h","e"," ","E","i","f","f","e","l"," ","T","o","w","e","r">>,
       \* "How to make chocolate chip cookies"
       <<"H","o","w"," ","t","o"," ","m","a","k","e"," ","c","h","o","c","o","l","a","t","e"," ","c","h","i","p"," ","c","o","o","k","i","e","s">>
    >>

\* Variant: no try around chitti.run, so the first error ends the loop.
main_stops_on_error(outcome) == outcome.kind # "raised"

\* try: response = chitti.run(query) ... except Exception as e: print(...):
\* whatever way the run of a query ended, the loop goes on to the next query.
main_continues_after(outcome) == TRUE

\* One turn of "for query in test_queries": run is called with the next query of
\* the list.  The completion service may be failing or answering at that time.
Main ==
    /\ pc \in {"idle", "done"}
    /\ Len(history) < Len(test_queries)
    /\ history # <<>> => main_continues_after(history[Len(history)].result)
    /\ \E up \in BOOLEAN : llm_mock' = [llm_mock EXCEPT !.ok = up]
    /\ StartRun(test_queries[Len(history) + 1])

\* Replies of the completion service in the driver's runs: at most one line.
MainReplies == {<<>>} \cup Lines

InitMain ==
    /\ llm_mock \in {[ok |-> TRUE, content |-> r] : r \in MainReplies}
    /\ tool_memo = {}
    /\ state = NoState
    /\ pc = "idle"
    /\ calls = NoCalls
    /\ routed = <<>>
    /\ result = NoResult
    /\ history = <<>>

NextMain ==
    \/ Main
    \/ AnalyzeQuery
    \/ GetWikipedia
    \/ GenerateImage
    \/ SearchYoutube
    \/ FormatResponse
    \/ Return

SpecMain == InitMain /\ [][NextMain]_vars

(***************************************************************************)
(* Properties.                                                             *)
(***************************************************************************)
BranchCalls ==
    calls["get_wikipedia"] + calls["generate_image"] + calls["search_youtube"]

\* The tool raised when the current run called it.
ToolRaised(tool, request) ==
    /\ calls[tool] > 0
    /\ \E m \in tool_memo : m.tool = tool /\ m.request = request /\ m.outcome.raises

\* analyze_query has parsed a reply in the current run.
Analyzed == calls["analyze_query"] = 1 /\ llm_mock.ok

\* C1 as stated: every finished run has executed exactly one of the three
\* branch executors.
C1_ExactlyOneBranchEveryRun ==
    pc = "done" => BranchCalls = 1

\* C1, amended: a run that returns a message has executed exactly one branch
\* executor, once, and the other two never; a run that raises has executed
\* none of the three.
C1_OneBranchPerReturnedRun ==
    /\ result.kind = "returned" =>
          \E b \in BranchNodes :
              /\ calls[b] = 1
              /\ \A o \in BranchNodes \ {b} : calls[o] = 0
    /\ result.kind = "raised" => BranchCalls = 0

C1_Witness ==
    /\ pc = "done"
    /\ result.kind = "returned"
    /\ calls["generate_image"] = 1
    /\ calls["get_wikipedia"] = 0
    /\ calls["search_youtube"] = 0

\* C2: whatever text the completion service returns, the run does not raise:
\* it ends with a returned message.
C2_MalformedReplyNeverAborts ==
    (pc = "done" /\ llm_mock.ok) => result.kind = "returned"

\* C3: when the tool of the selected branch raises, run does not raise, the
\* formatter executes, and the returned message contains that branch's error
\* prefix.
C3_BranchFailureIsContent ==
    /\ ToolRaised("wikipedia_tool", WikipediaRequest(state)) =>
          /\ result.kind # "raised"
          /\ pc = "done" =>
                /\ result.kind = "returned"
                /\ calls["format_response"] = 1
                /\ Contains(result.content, WIKI_ERROR_PREFIX)
    /\ ToolRaised("images_generate", ImagePrompt(state)) =>
          /\ result.kind # "raised"
          /\ pc = "done" =>
                /\ result.kind = "returned"
                /\ calls["format_response"] = 1
                /\ Contains(result.content, IMAGE_ERROR_PREFIX)
    /\ ToolRaised("youtube_tool", YoutubeRequest(state)) =>
          /\ result.kind # "raised"
          /\ pc = "done" =>
                /\ result.kind = "returned"
                /\ calls["format_response"] = 1
                /\ Contains(result.content, YOUTUBE_ERROR_PREFIX)

C3_Witness ==
    /\ pc = "done"
    /\ ToolRaised("images_generate", ImagePrompt(state))
    /\ result.kind = "returned"

\* C4: when the completion call raises, run raises, and neither a branch
\* executor nor the formatter is invoked in that run.
C4_ClassifierFailurePropagates ==
    (~llm_mock.ok /\ pc # "idle") =>
        /\ BranchCalls = 0
        /\ calls["format_response"] = 0
        /\ pc \in {"analyze_query", "done"}
        /\ pc = "done" => result.kind = "raised" /\ result.error = "ServiceError"

C4_Witness ==
    /\ ~llm_mock.ok
    /\ pc = "done"
    /\ result.kind = "raised"
    /\ calls["llm"] = 1

\* C5: a reply in which the "MEDIUM:" marker does not occur records
\* selected_medium = "text", and the run dispatches to the text branch only.
C5_NoMarkerDefaultsToText ==
    (Analyzed /\ ~Contains(llm_mock.content, MEDIUM_MARKER)) =>
        /\ state.selected_medium = TEXT
        /\ calls["generate_image"] = 0
        /\ calls["search_youtube"] = 0
        /\ pc \notin {"generate_image", "search_youtube"}
        /\ pc = "done" => calls["get_wikipedia"] = 1

C5_Witness ==
    /\ Analyzed
    /\ ~Contains(llm_mock.content, MEDIUM_MARKER)
    /\ Contains(llm_mock.content, REASONING_MARKER)
    /\ pc = "done"
    /\ calls["get_wikipedia"] = 1

\* The reply made of the line "REASONING:" + r and the line "MEDIUM:" + m.
TwoLineReply(r, m) == ReasoningLine(r) \o <<"\n">> \o MediumLine(m)

\* C6: for every reply "REASONING:" + r / "MEDIUM:" + m, analyze_query records
\* reasoning = r trimmed and selected_medium = m trimmed and lower-cased.
C6_MarkersParsed ==
    \A r \in ReasoningValues, m \in MediumValues :
        (Analyzed /\ llm_mock.content = TwoLineReply(r, m)) =>
            /\ state.reasoning = Strip(r)
            /\ state.selected_medium = Lower(Strip(m))

\* C7: two runs with the same query end alike, and a run starts from a state
\* that holds nothing an earlier run wrote.
C7_RunsIndependent ==
    /\ \A i, j \in 1..Len(history) :
          history[i].query = history[j].query => history[i].result = history[j].result
    /\ pc = "analyze_query" =>
          /\ state.reasoning = <<>>
          /\ state.selected_medium = TEXT
          /\ state.output = <<>>
          /\ state.messages = <<>>

C7_Witness ==
    /\ Len(history) = 2
    /\ history[1].query = history[2].query
    /\ history[1].result.kind = "returned"
    /\ history[2].result = history[1].result

\* The message format_response has stored for the image medium.
ImageMessage ==
    state.selected_medium = IMAGE /\ state.messages # <<>>

\* C8 as stated: the image message contains the branch output exactly twice.
C8_UrlExactlyTwice ==
    ImageMessage => Count(state.messages[1].content, state.output) = 2

\* C8, amended: the image message holds the branch output at the two places of
\* the template, inside the inline image reference and after "Image URL: " at
\* its end, so it contains the output at least twice.
C8_UrlAtTemplatePlaces ==
    ImageMessage =>
        LET content == state.messages[1].content
            n == Len(state.output)
            inline == Len(REASONING_HEAD) + Len(state.reasoning) + Len(IMAGE_BODY)
            labeled == inline + n + Len(IMAGE_URL_LINE)
        IN  /\ Len(content) = labeled + n
            /\ SubSeq(content, inline - Len(IMAGE_BODY) + 1, inline) = IMAGE_BODY
            /\ SubSeq(content, inline + 1, inline + n) = state.output
            /\ SubSeq(content, inline + n + 1, labeled) = IMAGE_URL_LINE
            /\ SubSeq(content, labeled + 1, labeled + n) = state.output
            /\ Count(content, state.output) >= 2

C8_Witness ==
    /\ ImageMessage
    /\ pc = "done"
    /\ result.kind = "returned"
    /\ ~Contains(state.output, IMAGE_ERROR_PREFIX)
    /\ Count(result.content, state.output) = 2

\* C9: route_to_medium returns selected_medium as recorded, and the branch that
\* executes is the one the path map gives for it.
C9_DispatchFollowsMedium ==
    /\ \A i \in 1..Len(routed) : routed[i] = state.selected_medium
    /\ (pc = "get_wikipedia" \/ calls["get_wikipedia"] > 0) => state.selected_medium = TEXT
    /\ (pc = "generate_image" \/ calls["generate_image"] > 0) => state.selected_medium = IMAGE
    /\ (pc = "search_youtube" \/ calls["search_youtube"] > 0) => state.selected_medium = VIDEO
    /\ (Analyzed /\ state.selected_medium = TEXT) =>
          (pc = "get_wikipedia" \/ calls["get_wikipedia"] = 1)
    /\ (Analyzed /\ state.selected_medium = IMAGE) =>
          (pc = "generate_image" \/ calls["generate_image"] = 1)
    /\ (Analyzed /\ state.selected_medium = VIDEO) =>
          (pc = "search_youtube" \/ calls["search_youtube"] = 1)

C9_Witness ==
    /\ pc = "done"
    /\ state.selected_medium = VIDEO
    /\ calls["search_youtube"] = 1
    /\ routed = <<VIDEO>>

\* C10: a medium outside the three is recorded as it appeared, the completion
\* service is not asked again, dispatch matches no branch and the run ends in
\* an error, with no branch executor and no formatter executed.
C10_UnknownMediumFailsDispatch ==
    /\ (Analyzed /\ state.selected_medium \notin Canonical) =>
          /\ pc = "done"
          /\ result = Raised("KeyError")
          /\ calls["llm"] = 1
          /\ BranchCalls = 0
          /\ calls["format_response"] = 0
    /\ \A m \in MediumValues :
          (Analyzed /\ llm_mock.content = MediumLine(m) /\ Lower(Strip(m)) \notin Canonical) =>
              /\ state.selected_medium = Lower(Strip(m))
              /\ result = Raised("KeyError")

C10_Witness ==
    /\ Analyzed
    /\ llm_mock.content = MediumLine(<<" ","a","u","d","i","o">>)
    /\ state.selected_medium = <<"a","u","d","i","o">>
    /\ pc = "done"
    /\ result.error = "KeyError"

\* C11: a branch executor starts only after analyze_query has completed,
\* format_response only after the selected branch executor has completed, run
\* returns only after format_response has completed, and one stage at a time is
\* under way.
C11_StagesInOrder ==
    /\ pc = "analyze_query" =>
          \A c \in Counted : calls[c] = 0
    /\ pc \in BranchNodes =>
          /\ calls["analyze_query"] = 1
          /\ BranchCalls = 0
          /\ calls["format_response"] = 0
    /\ pc = "format_response" =>
          /\ calls["analyze_query"] = 1
          /\ BranchCalls = 1
          /\ calls["format_response"] = 0
    /\ pc = "END" =>
          /\ calls["analyze_query"] = 1
          /\ BranchCalls = 1
          /\ calls["format_response"] = 1
          /\ result.kind = "none"
    /\ result.kind = "returned" =>
          /\ pc = "done"
          /\ calls["analyze_query"] = 1
          /\ BranchCalls = 1
          /\ calls["format_response"] = 1

C11_Witness ==
    /\ pc = "format_response"
    /\ calls["search_youtube"] = 1
    /\ calls["format_response"] = 0

\* C12: no state of a run has two different branch executors invoked, whatever
\* the completion service replies and whichever service call fails.
C12_AtMostOneBranch ==
    /\ Cardinality({b \in BranchNodes : calls[b] > 0}) <= 1
    /\ pc \in BranchNodes => BranchCalls = 0

C12_Witness ==
    /\ pc = "done"
    /\ calls["generate_image"] = 1
    /\ ToolRaised("images_generate", ImagePrompt(state))

\* C13: analyze_query changes only reasoning and selected_medium, a branch
\* executor only output, format_response only messages, and no stage changes
\* user_query.
C13_StagesWriteOwnFields ==
    [][ /\ pc = "analyze_query" =>
              /\ state'.user_query = state.user_query
              /\ state'.output = state.output
              /\ state'.messages = state.messages
        /\ pc \in BranchNodes =>
              /\ state'.user_query = state.user_query
              /\ state'.reasoning = state.reasoning
              /\ state'.selected_medium = state.selected_medium
              /\ state'.messages = state.messages
        /\ pc = "format_response" =>
              /\ state'.user_query = state.user_query
              /\ state'.reasoning = state.reasoning
              /\ state'.selected_medium = state.selected_medium
              /\ state'.output = state.output
        /\ pc = "END" => state' = state ]_vars

C13_Witness ==
    /\ pc = "done"
    /\ result.kind = "returned"
    /\ state.user_query = <<"k","n","o","t">>
    /\ state.reasoning = <<"o","k">>
    /\ state.selected_medium = TEXT
    /\ state.output = WIKI_ERROR_PREFIX \o ToolFailure
    /\ Len(state.messages) = 1

\* C14: in a run the completion service is called exactly once and a tool at
\* most once, and no stage executes a second time, also when the reply is
\* malformed or the tool call fails.
C14_NoRetries ==
    /\ \A c \in Counted : calls[c] <= 1
    /\ pc \notin {"idle", "analyze_query"} => calls["llm"] = 1
    /\ \A b \in BranchNodes : pc = b => calls[b] = 0
    /\ calls["wikipedia_tool"] = calls["get_wikipedia"]
    /\ calls["images_generate"] = calls["generate_image"]
    /\ calls["youtube_tool"] = calls["search_youtube"]

C14_Witness ==
    /\ pc = "done"
    /\ calls["llm"] = 1
    /\ calls["youtube_tool"] = 1
    /\ ToolRaised("youtube_tool", YoutubeRequest(state))

\* C15: the message run returns is the template of the recorded medium around
\* the reasoning analyze_query recorded and the output the branch recorded, both
\* unchanged; messages holds that one entry, of role "assistant".
C15_ReturnedMessageIsTemplate ==
    result.kind = "returned" =>
        LET reasoning == ParseReply(llm_mock.content).reasoning
            text == state.output
        IN  /\ state.reasoning = reasoning
            /\ Len(state.messages) = 1
            /\ state.messages[1].role = "assistant"
            /\ result.content = state.messages[1].content
            /\ state.selected_medium = TEXT =>
                  /\ text \in {ToolResult("wikipedia_tool"), WIKI_ERROR_PREFIX \o ToolFailure}
                  /\ result.content = REASONING_HEAD \o reasoning \o TEXT_BODY \o text
            /\ state.selected_medium = IMAGE =>
                  /\ text \in {ToolResult("images_generate"), IMAGE_ERROR_PREFIX \o ToolFailure}
                  /\ result.content =
                        REASONING_HEAD \o reasoning \o IMAGE_BODY \o text \o IMAGE_URL_LINE \o text
            /\ state.selected_medium = VIDEO =>
                  /\ text \in {ToolResult("youtube_tool"), YOUTUBE_ERROR_PREFIX \o ToolFailure}
                  /\ result.content = REASONING_HEAD \o reasoning \o VIDEO_BODY \o text
            /\ state.selected_medium \in Canonical

C15_Witness ==
    /\ result.kind = "returned"
    /\ state.selected_medium = VIDEO
    /\ state.reasoning = <<"o","k">>
    /\ result.content =
          REASONING_HEAD \o <<"o","k">> \o VIDEO_BODY \o ToolResult("youtube_tool")

\* C17: format_response is invoked only with selected_medium "text", "image"
\* or "video", so no run ends in its unbound formatted_response.
C17_FormatterSeesCanonicalMedium ==
    /\ (pc = "format_response" \/ calls["format_response"] > 0) =>
          state.selected_medium \in Canonical
    /\ result.error # "UnboundLocalError"
    /\ \A i \in 1..Len(history) : history[i].result.error # "UnboundLocalError"

C17_Witness ==
    /\ pc = "format_response"
    /\ state.selected_medium = VIDEO
    /\ ToolRaised("youtube_tool", YoutubeRequest(state))

\* The lines of the reply as the completion service sent it.
ReplyLines == Split(llm_mock.content, "\n")

\* The lines made of a marker and a value after it.
ReasoningLines == {ReasoningLine(r) : r \in ReasoningValues}

MediumLines == {MediumLine(m) : m \in MediumValues}

MarkerLines == ReasoningLines \cup MediumLines

LastOf(indices) == CHOOSE i \in indices : \A j \in indices : j <= i

\* C18: when several lines begin with "MEDIUM:" (or with "REASONING:"), the
\* last of them in reply order decides selected_medium (or reasoning): the
\* record is what that line alone would give.
C18_LastMarkerLineWins ==
    LET mediums == {i \in 1..Len(ReplyLines) : ReplyLines[i] \in MediumLines}
        reasonings == {i \in 1..Len(ReplyLines) : ReplyLines[i] \in ReasoningLines}
    IN  (Analyzed /\ \A i \in 1..Len(ReplyLines) : ReplyLines[i] \in MarkerLines) =>
            /\ Cardinality(mediums) >= 2 =>
                  state.selected_medium = ParseReply(ReplyLines[LastOf(mediums)]).medium
            /\ Cardinality(reasonings) >= 2 =>
                  state.reasoning = ParseReply(ReplyLines[LastOf(reasonings)]).reasoning

C18_Witness ==
    /\ Analyzed
    /\ llm_mock.content =
          MediumLine(<<" ","i","m","a","g","e">>) \o <<"\n">>
              \o MediumLine(<<" "," ","V","I","D","E","O"," ">>)
    /\ state.selected_medium = VIDEO
    /\ pc = "search_youtube"

\* " MEDIUM: video"
IndentedMediumLine == <<" ","M","E","D","I","U","M",":"," ","v","i","d","e","o">>

\* "Medium: image"
OtherCaseMediumLine == <<"M","e","d","i","u","m",":"," ","i","m","a","g","e">>

\* C19: a marker counts only at the very start of a line, and only the reply as
\* a whole is trimmed: " MEDIUM: video" on a line after the first, and
\* "Medium: image" on any line, leave selected_medium at the default "text";
\* " MEDIUM: video" as the first line is read, the trimming of the reply having
\* removed its blank.
C19_MarkerOnlyAtLineStart ==
    Analyzed =>
        /\ ( /\ \A i \in 1..Len(ReplyLines) : ReplyLines[i] \notin MediumLines
             /\ ReplyLines[1] # IndentedMediumLine )
              => state.selected_medium = TEXT
        /\ ( /\ \A i \in 1..Len(ReplyLines) : ReplyLines[i] \notin MediumLines
             /\ ReplyLines[1] = IndentedMediumLine )
              => state.selected_medium = VIDEO

C19_Witness ==
    /\ Analyzed
    /\ llm_mock.content =
          ReasoningLine(<<" ","o","k">>) \o <<"\n">> \o IndentedMediumLine
    /\ state.selected_medium = TEXT
    /\ state.reasoning = <<"o","k">>
    /\ pc = "done"
    /\ calls["get_wikipedia"] = 1

C19_WitnessOtherCase ==
    /\ Analyzed
    /\ llm_mock.content = OtherCaseMediumLine
    /\ state.selected_medium = TEXT

\* One batch of main is over: every query of the list has had its run.
BatchDone == pc = "done" /\ Len(history) = Len(test_queries)

\* C16: in main a run that raises does not end the batch: the queries are run
\* in list order, each once, and after a run that raised, with queries left,
\* the loop has its next turn, which runs the next query of the list.
C16_BatchSurvivesErrors ==
    /\ Len(history) <= Len(test_queries)
    /\ \A i \in 1..Len(history) : history[i].query = test_queries[i]
    /\ pc \notin {"idle", "done"} => state.user_query = test_queries[Len(history) + 1]
    /\ (pc = "done" /\ result.kind = "raised" /\ Len(history) < Len(test_queries))
          => ENABLED Main

C16_Witness ==
    /\ BatchDone
    /\ history[1].result.kind = "returned"
    /\ history[2].result = Raised("ServiceError")
    /\ history[3].result.kind = "returned"
    /\ history[6].result.kind = "returned"

====
